---------------------------- MODULE Spec2Model ----------------------------
(***************************************************************************)
(* Model of automation/generate_readme.py: folder discovery, file          *)
(* collection, prompt assembly, the generation call and the README write,  *)
(* driven by main() or by a direct call of one of its functions.           *)
(*                                                                         *)
(* Strings are modelled by their structure and length.  A path is the      *)
(* sequence of its pathlib parts.  A file's stored content is the record   *)
(* [take, marker]: the first `take` characters of the decoded text,        *)
(* followed by the truncation marker when `marker` holds.  A prompt is the *)
(* preamble, the sequence of appended file blocks and a trailing notice.   *)
(***************************************************************************)
EXTENDS Integers, Sequences, FiniteSets

\* ------------------------------------------------------------------ bounds
MaxItems == 2      \* entries os.scandir yields for the root directory
MaxDepth == 2      \* depth of the directory tree beneath a project folder
MaxFiles == 2      \* entries one project's FileContentMap may grow to
MaxEntries == 3    \* entries of a FileContentMap passed in by a direct caller

\* --------------------------------------------------------------- constants
IGNORE_FOLDERS == {".git", "automation", "__pycache__", ".stopautomation"}
IGNORE_FILES == {"README.md", ".env"}
STOP_AUTOMATION_FOLDER == ".stopautomation"
MAX_FILE_SIZE == 100000
MAX_CONTENT_LENGTH == 30000
\* len(base_prompt), the triple-quoted literal of lines 83-98
LenBasePrompt == 825
\* len("\n... (content truncated due to length)")
LenTruncationMarker == 38
\* len("\n\nNo file contents were included in the prompt due to size ...")
LenNoContentNotice == 104
\* len("\n\n... (some file contents were skipped due to total prompt ...")
LenSkippedNotice == 78
\* len("\n\nFile: ") + len("\nContent:\n") + len("\n")
LenBlockFrame == 19
text_extensions ==
    {".py", ".js", ".ts", ".html", ".css", ".md", ".txt", ".json", ".xml",
     ".yaml", ".yml", ".sh", ".bat", ".ps1"}

\* ------------------------------------------------------------------- paths
RECURSIVE SumLen(_)
SumLen(parts) ==
    IF parts = <<>> THEN 0 ELSE Len(Head(parts)) + SumLen(Tail(parts))

\* len(str(path)) of an absolute path whose first part is the anchor "/"
PathLen(parts) == SumLen(parts) + (IF Len(parts) > 2 THEN Len(parts) - 2 ELSE 0)

\* path.name
PathName(parts) == parts[Len(parts)]

\* should_ignore without the test of the path's parts (line 24 left out)
should_ignore_name_only(parts, is_dir) ==
    \/ PathName(parts) \in IGNORE_FOLDERS
    \/ PathName(parts) \in IGNORE_FILES

\* should_ignore(path); is_dir is what path.is_dir() answers
should_ignore(parts, is_dir) ==
    \/ PathName(parts) \in IGNORE_FOLDERS
    \/ PathName(parts) \in IGNORE_FILES
    \/ is_dir /\ \E k \in 1..Len(parts) : parts[k] \in IGNORE_FOLDERS

\* ------------------------------------------------------- the environment
\* Root directories main() may run beneath.
RootDirs == { <<"/", "repo">>, <<"/", "automation", "repo">> }

\* Names an entry of the root directory may carry.
ItemNames == {"proj_a", "proj_b", ".git", ".env"}

\* One os.DirEntry of the root: a file cannot hold the stop marker.
RootItems ==
    { it \in [name : ItemNames, is_dir : BOOLEAN, has_stop : BOOLEAN] :
        it.has_stop => it.is_dir }


\* Directory names beneath a project folder, in the order os.walk lists them.
DirNames == <<"src", ".git">>

\* Files a directory may hold, in the order os.walk lists them: the name, its
\* lower-cased suffix and the media type mimetypes.guess_type gives (<<>>: None).
FileKinds ==
    << [name |-> "app.py",    suffix |-> ".py",  mime |-> <<"text", "x-python">>],
       [name |-> "README.md", suffix |-> ".md",  mime |-> <<"text", "markdown">>],
       [name |-> ".env",      suffix |-> "",     mime |-> <<>>],
       [name |-> "logo.png",  suffix |-> ".png", mime |-> <<"image", "png">>] >>

\* st_size in bytes and the decoded length in characters of a file: a UTF-8
\* character takes one to four bytes.  The sizes are those at either side of
\* the two caps.
FileSizes ==
    { [size |-> 50, chars |-> 50],
      [size |-> MAX_FILE_SIZE, chars |-> MAX_CONTENT_LENGTH],
      [size |-> MAX_FILE_SIZE, chars |-> MAX_CONTENT_LENGTH + 1],
      [size |-> MAX_FILE_SIZE + 1, chars |-> MAX_FILE_SIZE + 1] }

\* The README.md a project folder holds before the run.
NoReadme == [kind |-> "absent", body |-> "", n |-> 0]
OldReadme == [kind |-> "file", body |-> "prior readme", n |-> 0]
InitialReadme == [p \in ItemNames |-> IF p = "proj_a" THEN OldReadme ELSE NoReadme]

\* What model.generate_content and response.text may do.
Responses ==
    { [ok |-> TRUE, text |-> "generated readme"],
      [ok |-> TRUE, text |-> ""],
      [ok |-> FALSE, text |-> "invalid api key"] }

\* What open(readme_path, 'w') and f.write may do.
WriteOutcomes == {"written", "open fails", "write fails"}

\* ------------------------------------------------------------------- state
VARIABLES
    root_dir,         \* main: root_directory, the parts of the root path
    readme,           \* the file system: each project folder's README.md
    pc,               \* the statement control is at
    caller,           \* "main", or "direct" for a call of one function alone
    scanned,          \* find_project_folders: the entries os.scandir yielded
    project_folders,  \* find_project_folders / main: names of accepted folders
    proj,             \* main: index of the project being processed
    walk_started,     \* read_project_files: os.walk has yielded the top directory
    current_dir,      \* read_project_files: current_dir, beneath the project
    file_pos,         \* read_project_files: position in `files`
    file_contents,    \* the FileContentMap, as the sequence of its items()
    i,                \* generate_readme_with_gemini: index of the loop
    prompt,           \* generate_readme_with_gemini: prompt
    readme_content,   \* the text generate_readme_with_gemini returned
    log               \* the calls main made and its skip diagnostics, in order

vars ==
    << root_dir, readme, pc, caller, scanned, project_folders, proj, walk_started,
       current_dir, file_pos, file_contents, i, prompt, readme_content, log >>

fs_vars == << root_dir, readme >>
scan_vars == << scanned, project_folders >>
walk_vars == << walk_started, current_dir, file_pos >>
gen_vars == << i, prompt, readme_content >>

\* ------------------------------------------------------------- strings
\* len(content)
ContentLen(c) == c.take + (IF c.marker THEN LenTruncationMarker ELSE 0)

\* len(f"\n\nFile: {file_path}\nContent:\n{content}\n")
BlockLen(e) == LenBlockFrame + PathLen(e.path) + ContentLen(e.content)

RECURSIVE SumBlocks(_)
SumBlocks(es) == IF es = <<>> THEN 0 ELSE BlockLen(Head(es)) + SumBlocks(Tail(es))

NoticeLen(notice) ==
    CASE notice = "no content" -> LenNoContentNotice
      [] notice = "some skipped" -> LenSkippedNotice
      [] OTHER -> 0

\* len(prompt)
PromptLen(p) == LenBasePrompt + SumBlocks(p.blocks) + NoticeLen(p.notice)

base_prompt == [blocks |-> <<>>, notice |-> "none"]
NoText == [kind |-> "none", body |-> "", n |-> 0]

\* -------------------------------------------------- find_project_folders
ScannedNames == { it.name : it \in scanned }

\* One iteration of the loop over os.scandir(root_dir).
ScanItem(item) ==
    /\ pc = "scan"
    /\ Cardinality(scanned) < MaxItems
    /\ item.name \notin ScannedNames
    /\ scanned' = scanned \cup {item}
    /\ project_folders' =
         IF /\ item.is_dir
            /\ ~should_ignore(Append(root_dir, item.name), item.is_dir)
            /\ ~item.has_stop
         THEN Append(project_folders, item.name)
         ELSE project_folders
    /\ UNCHANGED << fs_vars, pc, caller, proj, walk_vars, file_contents, gen_vars, log >>

\* os.scandir is exhausted: return project_folders.
ScanEnd ==
    /\ pc = "scan"
    /\ pc' = "discovered"
    /\ UNCHANGED << fs_vars, caller, scan_vars, proj, walk_vars, file_contents,
                    gen_vars, log >>

\* ---------------------------------------------------- read_project_files
Range(seq) == { seq[k] : k \in 1..Len(seq) }
IndexOf(seq, x) == CHOOSE k \in 1..Len(seq) : seq[k] = x

\* Directories beneath a project folder, as paths relative to it.
SubDirs == UNION { [1..n -> Range(DirNames)] : n \in 0..MaxDepth }

\* os.walk is top-down: after `cur` it yields a child of `cur`, or a later
\* child of one of its ancestors.
Follows(cur, d) ==
    \E k \in 0..Len(cur) :
        /\ Len(d) = k + 1
        /\ SubSeq(d, 1, k) = SubSeq(cur, 1, k)
        /\ k < Len(cur) => IndexOf(DirNames, d[k + 1]) > IndexOf(DirNames, cur[k + 1])

\* pathlib.Path(root) of the directory os.walk is at
CurrentDirPath == (root_dir \o << project_folders[proj] >>) \o current_dir

\* is_text_file(file_path)
is_text_file(f) ==
    \/ f.mime # <<>> /\ f.mime[1] = "text"
    \/ f.suffix \in text_extensions

\* read_content truncating at a per-file cap of its own, below the prompt cap
read_content_own_cap(chars) ==
    IF chars > MAX_CONTENT_LENGTH \div 2
    THEN [take |-> MAX_CONTENT_LENGTH \div 2, marker |-> TRUE]
    ELSE [take |-> chars, marker |-> FALSE]

\* content after lines 67-70: f.read(), truncated when too long
read_content(chars) ==
    IF chars > MAX_CONTENT_LENGTH
    THEN [take |-> MAX_CONTENT_LENGTH, marker |-> TRUE]
    ELSE [take |-> chars, marker |-> FALSE]

\* file_verdict skipping a file already at the size cap (>= for > in line 62)
file_verdict_at_cap(file_path, f, sz, decodable) ==
    IF should_ignore(file_path, FALSE) \/ ~is_text_file(f) THEN "filtered"
    ELSE IF sz.size >= MAX_FILE_SIZE THEN "too large"
    ELSE IF ~decodable THEN "read error"
    ELSE "stored"

\* The branch lines 59-73 take for one file.
file_verdict(file_path, f, sz, decodable) ==
    IF should_ignore(file_path, FALSE) \/ ~is_text_file(f) THEN "filtered"
    ELSE IF sz.size > MAX_FILE_SIZE THEN "too large"
    ELSE IF ~decodable THEN "read error"
    ELSE "stored"

\* os.walk yields the next directory; an ignored one is passed over.
WalkDir(d) ==
    /\ pc = "walk"
    /\ IF walk_started THEN Follows(current_dir, d) ELSE d = <<>>
    /\ walk_started' = TRUE
    /\ current_dir' = d
    /\ file_pos' = 0
    /\ pc' = IF should_ignore((root_dir \o << project_folders[proj] >>) \o d, TRUE)
             THEN "walk" ELSE "files"
    /\ UNCHANGED << fs_vars, caller, scan_vars, proj, file_contents, gen_vars, log >>

\* One iteration of `for file in files`.
ReadFile(k, sz, decodable) ==
    /\ pc = "files"
    /\ k > file_pos
    /\ Len(file_contents) < MaxFiles
    /\ file_pos' = k
    /\ LET f == FileKinds[k]
           file_path == Append(CurrentDirPath, f.name)
       IN  file_contents' =
             IF file_verdict(file_path, f, sz, decodable) = "stored"
             THEN Append(file_contents,
                         [path |-> file_path, src |-> sz,
                          content |-> read_content(sz.chars)])
             ELSE file_contents
    /\ UNCHANGED << fs_vars, pc, caller, scan_vars, proj, walk_started, current_dir,
                    gen_vars, log >>

\* `files` is exhausted.
FilesEnd ==
    /\ pc = "files"
    /\ pc' = "walk"
    /\ UNCHANGED << fs_vars, caller, scan_vars, proj, walk_vars, file_contents,
                    gen_vars, log >>

\* os.walk is exhausted: return file_contents.
WalkEnd ==
    /\ pc = "walk"
    /\ walk_started
    /\ pc' = "collected"
    /\ UNCHANGED << fs_vars, caller, scan_vars, proj, walk_vars, file_contents,
                    gen_vars, log >>

\* ------------------------------------------- generate_readme_with_gemini
\* The project main is at ("-" in a direct call).
CurrentProject ==
    IF proj \in 1..Len(project_folders) THEN project_folders[proj] ELSE "-"

Event(call) == [proj |-> CurrentProject, call |-> call]

\* The documents lines 126, 128 and 132 return.
ErrorDocument(description) == [kind |-> "error", body |-> description, n |-> 0]
EmptyResponseDocument(p) ==
    [kind |-> "error", body |-> "Received empty response from Gemini API",
     n |-> PromptLen(p)]
ResponseDocument(text) == [kind |-> "text", body |-> text, n |-> 0]

\* Line 80: genai.GenerativeModel(...), inside the try; then prompt = base_prompt.
GenModel(ok) ==
    /\ pc = "model"
    /\ IF ok
       THEN /\ pc' = "assemble"
            /\ i' = 1
            /\ prompt' = base_prompt
            /\ UNCHANGED readme_content
       ELSE /\ pc' = "returned"
            /\ readme_content' = ErrorDocument("model unavailable")
            /\ UNCHANGED << i, prompt >>
    /\ UNCHANGED << fs_vars, caller, scan_vars, proj, walk_vars, file_contents, log >>

\* AssembleStep going on to the next entry after a rejected block (continue
\* for break in line 109)
AssembleStep_continue ==
    /\ pc = "assemble"
    /\ IF i > Len(file_contents)
       THEN /\ pc' = "notice"
            /\ UNCHANGED << i, prompt >>
       ELSE IF PromptLen(prompt) + BlockLen(file_contents[i]) > MAX_CONTENT_LENGTH
       THEN /\ i' = i + 1
            /\ UNCHANGED << pc, prompt >>
       ELSE /\ prompt' = [prompt EXCEPT !.blocks = Append(@, file_contents[i])]
            /\ i' = i + 1
            /\ UNCHANGED pc
    /\ UNCHANGED << fs_vars, caller, scan_vars, proj, walk_vars, file_contents,
                    readme_content, log >>

\* One iteration of the loop of lines 103-111, or its end.
AssembleStep ==
    /\ pc = "assemble"
    /\ IF i > Len(file_contents)
       THEN /\ pc' = "notice"
            /\ UNCHANGED << i, prompt >>
       ELSE IF PromptLen(prompt) + BlockLen(file_contents[i]) > MAX_CONTENT_LENGTH
       THEN /\ pc' = "notice"
            /\ UNCHANGED << i, prompt >>
       ELSE /\ prompt' = [prompt EXCEPT !.blocks = Append(@, file_contents[i])]
            /\ i' = i + 1
            /\ UNCHANGED pc
    /\ UNCHANGED << fs_vars, caller, scan_vars, proj, walk_vars, file_contents,
                    readme_content, log >>

\* notice_for comparing with the blocks' total alone (+ len(base_prompt) of
\* line 116 left out)
notice_for_no_base(p, fc) ==
    IF PromptLen(p) = LenBasePrompt THEN "no content"
    ELSE IF PromptLen(p) < SumBlocks(fc) THEN "some skipped"
    ELSE "none"

\* The notice lines 114-117 choose.
notice_for(p, fc) ==
    IF PromptLen(p) = LenBasePrompt THEN "no content"
    ELSE IF PromptLen(p) < SumBlocks(fc) + LenBasePrompt THEN "some skipped"
    ELSE "none"

\* Lines 114-117.
AddNotice ==
    /\ pc = "notice"
    /\ prompt' = [prompt EXCEPT !.notice = notice_for(prompt, file_contents)]
    /\ pc' = "call"
    /\ UNCHANGED << fs_vars, caller, scan_vars, proj, walk_vars, file_contents, i,
                    readme_content, log >>

\* document_for returning an empty response as it is (lines 123-126 left out)
document_for_no_empty_check(resp, p) ==
    IF ~resp.ok THEN ErrorDocument(resp.text)
    ELSE ResponseDocument(resp.text)

\* What lines 121-132 return for a response.
document_for(resp, p) ==
    IF ~resp.ok THEN ErrorDocument(resp.text)
    ELSE IF resp.text = "" THEN EmptyResponseDocument(p)
    ELSE ResponseDocument(resp.text)

\* Lines 121-132: the one call of model.generate_content and the return.
GenerateContent(resp) ==
    /\ pc = "call"
    /\ readme_content' = document_for(resp, prompt)
    /\ log' = Append(log, Event("generate_content"))
    /\ pc' = "returned"
    /\ UNCHANGED << fs_vars, caller, scan_vars, proj, walk_vars, file_contents, i,
                    prompt >>

\* ------------------------------------------------------- save_readme, main
\* README.md after save_readme: open(..., 'w') truncates before f.write.
readme_after(old, content, outcome) ==
    CASE outcome = "written" -> content
      [] outcome = "write fails" -> [kind |-> "file", body |-> "", n |-> 0]
      [] OTHER -> old

\* Lines 149-151: main after find_project_folders returned.
MainAfterDiscover ==
    /\ pc = "discovered"
    /\ caller = "main"
    /\ pc' = IF project_folders = <<>> THEN "done" ELSE "loop"
    /\ scanned' = {}
    /\ UNCHANGED << fs_vars, caller, project_folders, proj, walk_vars, file_contents,
                    gen_vars, log >>

\* Lines 153-155: the next project, and the call of read_project_files.
MainNextProject ==
    /\ pc = "loop"
    /\ IF proj < Len(project_folders)
       THEN /\ proj' = proj + 1
            /\ pc' = "walk"
            /\ log' = Append(log, [proj |-> project_folders[proj + 1],
                                   call |-> "read_project_files"])
       ELSE /\ pc' = "done"
            /\ UNCHANGED << proj, log >>
    /\ UNCHANGED << fs_vars, caller, scan_vars, walk_vars, file_contents, gen_vars >>

\* MainAfterCollect without the test of line 156
MainAfterCollect_no_test ==
    /\ pc = "collected"
    /\ caller = "main"
    /\ walk_started' = FALSE
    /\ current_dir' = <<>>
    /\ file_pos' = 0
    /\ pc' = "model"
    /\ log' = Append(log, Event("generate_readme_with_gemini"))
    /\ UNCHANGED << fs_vars, caller, scan_vars, proj, file_contents, gen_vars >>

\* Lines 156-160: main after read_project_files returned.  The locals of the
\* finished call are dropped.
MainAfterCollect ==
    /\ pc = "collected"
    /\ caller = "main"
    /\ walk_started' = FALSE
    /\ current_dir' = <<>>
    /\ file_pos' = 0
    /\ IF file_contents # <<>>
       THEN /\ pc' = "model"
            /\ log' = Append(log, Event("generate_readme_with_gemini"))
       ELSE /\ pc' = "loop"
            /\ log' = Append(log, Event("skip"))
    /\ UNCHANGED << fs_vars, caller, scan_vars, proj, file_contents, gen_vars >>

\* MainSave with the write error escaping save_readme and ending the run
\* (the try of lines 137-142 left out)
MainSave_error_escapes(outcome) ==
    /\ pc = "returned"
    /\ caller = "main"
    /\ readme' = [readme EXCEPT ![CurrentProject] =
                     readme_after(@, readme_content, outcome)]
    /\ log' = Append(log, Event("save_readme"))
    /\ pc' = IF outcome = "written" THEN "loop" ELSE "done"
    /\ file_contents' = <<>>
    /\ i' = 0
    /\ prompt' = base_prompt
    /\ readme_content' = NoText
    /\ UNCHANGED << root_dir, caller, scan_vars, proj, walk_vars >>

\* Line 158: save_readme(project_folder, readme_content), lines 134-142.  The
\* project's map, prompt and document are dead from here on and are dropped.
MainSave(outcome) ==
    /\ pc = "returned"
    /\ caller = "main"
    /\ readme' = [readme EXCEPT ![CurrentProject] =
                     readme_after(@, readme_content, outcome)]
    /\ log' = Append(log, Event("save_readme"))
    /\ pc' = "loop"
    /\ file_contents' = <<>>
    /\ i' = 0
    /\ prompt' = base_prompt
    /\ readme_content' = NoText
    /\ UNCHANGED << root_dir, caller, scan_vars, proj, walk_vars >>

\* ------------------------------------------------------- specifications
InitCommon ==
    /\ root_dir \in RootDirs
    /\ readme = InitialReadme
    /\ scanned = {}
    /\ walk_started = FALSE
    /\ current_dir = <<>>
    /\ file_pos = 0
    /\ i = 0
    /\ prompt = base_prompt
    /\ readme_content = NoText
    /\ log = <<>>

\* main()
Init ==
    /\ InitCommon
    /\ pc = "scan"
    /\ caller = "main"
    /\ project_folders = <<>>
    /\ proj = 0
    /\ file_contents = <<>>

Next ==
    \/ \E item \in RootItems : ScanItem(item)
    \/ ScanEnd
    \/ MainAfterDiscover
    \/ MainNextProject
    \/ \E d \in SubDirs : WalkDir(d)
    \/ \E k \in 1..Len(FileKinds), sz \in FileSizes, decodable \in BOOLEAN :
          ReadFile(k, sz, decodable)
    \/ FilesEnd
    \/ WalkEnd
    \/ MainAfterCollect
    \/ \E ok \in BOOLEAN : GenModel(ok)
    \/ AssembleStep
    \/ AddNotice
    \/ \E resp \in Responses : GenerateContent(resp)
    \/ \E outcome \in WriteOutcomes : MainSave(outcome)

Spec == Init /\ [][Next]_vars

\* main() with the scheduling of a sequential program: it keeps running until
\* it returns, and every call it makes returns.
FairSpec == Spec /\ WF_vars(Next)

\* find_project_folders(root_dir), called alone
InitDiscover ==
    /\ InitCommon
    /\ pc = "scan"
    /\ caller = "direct"
    /\ project_folders = <<>>
    /\ proj = 0
    /\ file_contents = <<>>

NextDiscover ==
    \/ \E item \in RootItems : ScanItem(item)
    \/ ScanEnd

SpecDiscover == InitDiscover /\ [][NextDiscover]_vars

\* read_project_files(project_folder), called alone
InitCollect ==
    /\ InitCommon
    /\ pc = "walk"
    /\ caller = "direct"
    /\ project_folders = << "proj_a" >>
    /\ proj = 1
    /\ file_contents = <<>>

NextCollect ==
    \/ \E d \in SubDirs : WalkDir(d)
    \/ \E k \in 1..Len(FileKinds), sz \in FileSizes, decodable \in BOOLEAN :
          ReadFile(k, sz, decodable)
    \/ FilesEnd
    \/ WalkEnd

SpecCollect == InitCollect /\ [][NextCollect]_vars

\* Keys and content lengths of the maps a direct caller passes: FitOne is the
\* longest content whose block fits the prompt alone.
DirectPaths == { <<"/", "a.py">>, <<"/", "b.py">>, <<"/", "c.py">>, <<"/", "d.py">> }
FitOne == MAX_CONTENT_LENGTH - LenBasePrompt - LenBlockFrame - 5
DirectLens == {0, 50, FitOne - 60, FitOne, FitOne + 1}
DirectEntries ==
    { [path |-> pth, src |-> [size |-> n, chars |-> n],
       content |-> [take |-> n, marker |-> FALSE]] :
         pth \in DirectPaths, n \in DirectLens }
DirectMaps ==
    { m \in UNION { [1..n -> DirectEntries] : n \in 0..MaxEntries } :
        \A a, b \in 1..Len(m) : a # b => m[a].path # m[b].path }

\* generate_readme_with_gemini(file_contents), called alone
InitPrompt ==
    /\ InitCommon
    /\ pc = "model"
    /\ caller = "direct"
    /\ project_folders = <<>>
    /\ proj = 0
    /\ file_contents \in DirectMaps

NextPrompt ==
    \/ \E ok \in BOOLEAN : GenModel(ok)
    \/ AssembleStep
    \/ AddNotice
    \/ \E resp \in Responses : GenerateContent(resp)

SpecPrompt == InitPrompt /\ [][NextPrompt]_vars

\* ------------------------------------------------------------------ claims
IsPrefix(s, t) == Len(s) <= Len(t) /\ s = SubSeq(t, 1, Len(s))

\* C1: the prompt submitted to the generation service (preamble, appended
\* file blocks and trailing notice) is never longer than MAX_CONTENT_LENGTH.
C1_PromptWithinCap ==
    pc = "call" => PromptLen(prompt) <= MAX_CONTENT_LENGTH

\* C2: find_project_folders returns exactly the immediate child directories
\* of the root whose name is not in IGNORE_FOLDERS and which hold no stop
\* marker, whatever the root path is.
C2_DiscoverExact ==
    pc = "discovered" =>
        Range(project_folders) =
            { it.name : it \in { x \in scanned :
                /\ x.is_dir
                /\ x.name \notin IGNORE_FOLDERS
                /\ ~x.has_stop } }

\* C3: the blocks of the submitted prompt are a prefix of the map's entries in
\* iteration order, every appended block kept the prompt within the cap, and
\* the prefix ends at the first entry whose block would exceed the cap, even
\* when a later entry would have fit.
C3_GreedyPrefix ==
    pc = "call" =>
        /\ IsPrefix(prompt.blocks, file_contents)
        /\ LenBasePrompt + SumBlocks(prompt.blocks) <= MAX_CONTENT_LENGTH
        /\ Len(prompt.blocks) < Len(file_contents) =>
              LenBasePrompt + SumBlocks(SubSeq(file_contents, 1, Len(prompt.blocks) + 1))
                 > MAX_CONTENT_LENGTH

\* C3 witness: an entry was rejected and a later entry would have fit.
C3_Witness ==
    /\ pc = "call"
    /\ prompt.blocks # <<>>
    /\ \E j \in (Len(prompt.blocks) + 2)..Len(file_contents) :
          LenBasePrompt + SumBlocks(prompt.blocks) + BlockLen(file_contents[j])
             <= MAX_CONTENT_LENGTH

OverCap(fc) == LenBasePrompt + SumBlocks(fc) > MAX_CONTENT_LENGTH
StrictPrefix(s, t) == IsPrefix(s, t) /\ Len(s) < Len(t)

\* C4 as stated: whenever the map's cumulative formatted size exceeds the cap,
\* the prompt is the preamble, a strict prefix of the entries and the "some
\* files skipped" notice, also when the first block already exceeds the cap.
C4_Original ==
    (pc = "call" /\ OverCap(file_contents)) =>
        /\ StrictPrefix(prompt.blocks, file_contents)
        /\ prompt.notice = "some skipped"

\* C4 amended: whenever the map's cumulative formatted size exceeds the cap,
\* the prompt is the preamble, a strict prefix of the entries and a notice:
\* "some files skipped" when at least one block was appended, "no content"
\* when the first block already exceeds the cap.
C4_Amended ==
    (pc = "call" /\ OverCap(file_contents)) =>
        /\ StrictPrefix(prompt.blocks, file_contents)
        /\ prompt.notice =
              IF prompt.blocks = <<>> THEN "no content" ELSE "some skipped"

\* C4 witness: an over-cap map whose first block already exceeds the cap.
C4_Witness ==
    /\ pc = "call"
    /\ OverCap(file_contents)
    /\ Len(file_contents) > 1
    /\ prompt.blocks = <<>>

\* A file read_project_files neither filters out nor fails to decode.
Readable(k, decodable) ==
    /\ decodable
    /\ is_text_file(FileKinds[k])
    /\ ~should_ignore(Append(CurrentDirPath, FileKinds[k].name), FALSE)

Unmodified(e) == e.content = [take |-> e.src.chars, marker |-> FALSE]

Truncated(e) ==
    /\ e.content = [take |-> MAX_CONTENT_LENGTH, marker |-> TRUE]
    /\ ContentLen(e.content) = MAX_CONTENT_LENGTH + LenTruncationMarker

\* One iteration over a readable file stores it exactly when its size is
\* at most MAX_FILE_SIZE.
C5_SizeCapStep ==
    \A k \in 1..Len(FileKinds), sz \in FileSizes, decodable \in BOOLEAN :
        (ReadFile(k, sz, decodable) /\ Readable(k, decodable)) =>
            IF sz.size > MAX_FILE_SIZE
            THEN file_contents' = file_contents
            ELSE /\ Len(file_contents') = Len(file_contents) + 1
                 /\ file_contents'[Len(file_contents')].src = sz
                 /\ file_contents'[Len(file_contents')].path =
                       Append(CurrentDirPath, FileKinds[k].name)

\* C5 as stated, on the stored entries: none is above the size cap, one at
\* exactly the size cap is unmodified, and one whose text is over the content
\* cap is the first MAX_CONTENT_LENGTH characters plus the marker.
C5_OriginalStored ==
    \A j \in 1..Len(file_contents) :
        LET e == file_contents[j]
        IN  /\ e.src.size <= MAX_FILE_SIZE
            /\ e.src.size = MAX_FILE_SIZE => Unmodified(e)
            /\ e.src.chars > MAX_CONTENT_LENGTH => Truncated(e)

\* C5 as stated: a file above the size cap is absent, a file at exactly the
\* size cap is present with unmodified content, and a file whose text is over
\* the content cap is stored as the first cap characters plus the marker.
C5_Original == []C5_OriginalStored /\ [][C5_SizeCapStep]_vars

\* The stored entries under the amended claim.
C5_AmendedStored ==
    \A j \in 1..Len(file_contents) :
        LET e == file_contents[j]
        IN  /\ e.src.size <= MAX_FILE_SIZE
            /\ e.src.chars <= MAX_CONTENT_LENGTH => Unmodified(e)
            /\ e.src.chars > MAX_CONTENT_LENGTH => Truncated(e)

\* C5 amended: a file above the size cap is absent; a file at exactly the size
\* cap is present, with unmodified content when its decoded text is within the
\* content cap; and a file whose text is over the content cap is stored as the
\* first cap characters plus the marker (length cap + marker length).
C5_Amended == []C5_AmendedStored /\ [][C5_SizeCapStep]_vars

\* C5 witness: a file of exactly MAX_FILE_SIZE bytes is in the map, truncated,
\* beside one whose text is within the content cap.
C5_Witness ==
    /\ \E j \in 1..Len(file_contents) :
          /\ file_contents[j].src.size = MAX_FILE_SIZE
          /\ Truncated(file_contents[j])
    /\ \E j \in 1..Len(file_contents) :
          /\ file_contents[j].src.size = MAX_FILE_SIZE
          /\ Unmodified(file_contents[j])

\* The path parts of an entry between its project folder and its file name.
DirParts(e) == SubSeq(e.path, Len(root_dir) + 2, Len(e.path) - 1)

\* C6: the map holds no file named in IGNORE_FILES and no file beneath, at any
\* depth, a directory named in IGNORE_FOLDERS.
C6_NoIgnoredEntry ==
    \A j \in 1..Len(file_contents) :
        /\ PathName(file_contents[j].path) \notin IGNORE_FILES
        /\ \A k \in 1..Len(DirParts(file_contents[j])) :
              DirParts(file_contents[j])[k] \notin IGNORE_FOLDERS

\* C6 witness: the walk is at a directory within an ignored one, with files
\* collected elsewhere.
C6_Witness ==
    /\ pc = "walk"
    /\ Len(current_dir) = 2
    /\ current_dir[1] \in IGNORE_FOLDERS
    /\ current_dir[2] \notin IGNORE_FOLDERS
    /\ file_contents # <<>>

\* The generation call returns the document its outcome determines.
C7_CallStep ==
    \A resp \in Responses :
        GenerateContent(resp) =>
            /\ pc' = "returned"
            /\ (resp.ok /\ resp.text # "") =>
                  readme_content' = [kind |-> "text", body |-> resp.text, n |-> 0]
            /\ (resp.ok /\ resp.text = "") =>
                  /\ readme_content'.kind = "error"
                  /\ readme_content'.body = "Received empty response from Gemini API"
                  /\ readme_content'.n = PromptLen(prompt)
            /\ ~resp.ok =>
                  /\ readme_content'.kind = "error"
                  /\ readme_content'.body = resp.text

\* The Writer is handed, and on success writes, the returned document.
C7_SaveStep ==
    \A outcome \in WriteOutcomes :
        (MainSave(outcome) /\ outcome = "written") =>
            readme'[CurrentProject] = readme_content

\* C7: for a non-empty map the text handed to the Writer is the returned text
\* verbatim, the empty-response error document with the prompt length, or the
\* error document with the failure description; generate_readme_with_gemini
\* always returns a document.
C7_DocumentByOutcome ==
    /\ [][C7_CallStep /\ C7_SaveStep]_vars
    /\ []((pc = "returned" /\ caller = "main") =>
             /\ file_contents # <<>>
             /\ readme_content.kind \in {"text", "error"})

\* C7 witness: main holds the empty-response error document of a prompt with
\* file blocks.
C7_Witness ==
    /\ pc = "returned"
    /\ caller = "main"
    /\ readme_content.kind = "error"
    /\ readme_content.n > LenBasePrompt + LenNoContentNotice

HasEvent(p, call) == \E a \in 1..Len(log) : log[a] = [proj |-> p, call |-> call]

\* The stage of a project's processing an event belongs to.
Stage(call) ==
    CASE call = "read_project_files" -> 1
      [] call = "generate_readme_with_gemini" -> 2
      [] call = "skip" -> 2
      [] call = "generate_content" -> 3
      [] OTHER -> 4

\* Events are in discovery order of their projects and, within a project, in
\* the order Collector, Generator, generation call, Writer, each at most once.
C8_Order ==
    /\ \A a \in 1..Len(log) :
          \E k \in 1..proj : project_folders[k] = log[a].proj
    /\ \A a, b \in 1..Len(log) :
          a < b =>
             \/ IndexOf(project_folders, log[a].proj)
                   < IndexOf(project_folders, log[b].proj)
             \/ /\ log[a].proj = log[b].proj
                /\ Stage(log[a].call) < Stage(log[b].call)

\* When the run ends every discovered project was collected, and every
\* project with files went on to the Generator and the Writer.
C8_Complete ==
    pc = "done" =>
        \A k \in 1..Len(project_folders) :
            LET p == project_folders[k]
            IN  /\ HasEvent(p, "read_project_files")
                /\ HasEvent(p, "skip") \/ HasEvent(p, "save_readme")
                /\ HasEvent(p, "generate_readme_with_gemini") <=> HasEvent(p, "save_readme")

\* C8: each discovered project is processed once, in discovery order, as
\* Collector, Generator, Writer with at most one generation call; no failure
\* keeps a later project from being processed; and the run ends with every
\* discovered project attempted.
C8_EveryProjectOnce ==
    /\ [](C8_Order /\ C8_Complete)
    /\ <>(pc = "done")

\* C8 witness: a run of two projects has ended, the first project's
\* generation failed and its README write failed too.
C8_Witness ==
    /\ pc = "done"
    /\ Len(project_folders) = 2
    /\ HasEvent(project_folders[1], "save_readme")
    /\ ~HasEvent(project_folders[1], "generate_content")
    /\ readme[project_folders[1]] = [kind |-> "file", body |-> "", n |-> 0]
    /\ HasEvent(project_folders[2], "save_readme")

\* C9: a project whose collection yields an empty map gets no generation call
\* and no write: its README.md stays as it was before the run, and the
\* Generator never runs on an empty map from main.
C9_EmptySkipped ==
    /\ (caller = "main" /\ pc \in {"model", "assemble", "notice", "call", "returned"})
          => file_contents # <<>>
    /\ \A k \in 1..Len(project_folders) :
          LET p == project_folders[k]
          IN  /\ HasEvent(p, "skip") =>
                    /\ ~HasEvent(p, "generate_readme_with_gemini")
                    /\ ~HasEvent(p, "generate_content")
                    /\ ~HasEvent(p, "save_readme")
                    /\ readme[p] = InitialReadme[p]
              /\ (k < proj \/ (k = proj /\ pc \in {"loop", "done"})) =>
                    HasEvent(p, "skip") \/ HasEvent(p, "save_readme")

\* C9 witness: the run ended having skipped a project that holds a README.md.
C9_Witness ==
    /\ pc = "done"
    /\ \E k \in 1..Len(project_folders) :
          /\ HasEvent(project_folders[k], "skip")
          /\ readme[project_folders[k]] = OldReadme

\* C10: in a run of main, a truncated entry is never among the blocks of the
\* submitted prompt, nor is any entry after it; when the first entry is
\* truncated the prompt is the preamble plus the "no content" notice.
C10_TruncatedNeverAppended ==
    (caller = "main" /\ pc = "call") =>
        /\ IsPrefix(prompt.blocks, file_contents)
        /\ \A j \in 1..Len(file_contents) :
              file_contents[j].content.marker => Len(prompt.blocks) < j
        /\ (file_contents # <<>> /\ file_contents[1].content.marker) =>
              prompt = [blocks |-> <<>>, notice |-> "no content"]

\* C10 witness: a truncated entry followed by a small one, nothing appended.
C10_Witness ==
    /\ caller = "main"
    /\ pc = "call"
    /\ Len(file_contents) = 2
    /\ file_contents[1].content.marker
    /\ ContentLen(file_contents[2].content) = 50
    /\ prompt.notice = "no content"

=============================================================================
